---- MODULE Spec2Model ----
(***************************************************************************)
(* Verification model of the Passkey client.                               *)
(*                                                                         *)
(* The Mock Relying Party (src/src/services/mockServer.ts): the two        *)
(* module-level Maps, the four ceremony endpoints, clearMockData and       *)
(* cleanupExpiredChallenges. The Base64URL codec and the remote client     *)
(* fetchApi (src/src/services/encoding.ts). The ceremony adapter and the   *)
(* error translator (src/unnamed/part_004). The settings provider          *)
(* (src/unnamed/part_003), the facade hook useFido2Api and a page handler  *)
(* that runs a ceremony through it.                                        *)
(*                                                                         *)
(* A JavaScript Map is modelled as the sequence of its values in insertion *)
(* order with unique keys; Date.now() is the variable now, in ms.          *)
(***************************************************************************)
EXTENDS Integers, Sequences, FiniteSets, TLC

VARIABLES
    mockStorage,       \* Map<string, StoredCredential>, values in insertion order
    challengeStorage,  \* Map<string, {challenge, username, timestamp}>, insertion order
    now,               \* Date.now(), milliseconds
    lastCall,          \* the operation executed last, its argument and its return value
    ceremonies,        \* history: for challenge i, how and when it was issued
    concluded,         \* history: challenges for which a finish call returned success:true
    cleared            \* history: who owned which credential at the last clearMockData,
                       \*          while no mockRegisterFinish has followed it

VARIABLES
    codec,             \* one use of the Base64URL codec: its input and what it returned
    conv,              \* one use of an options conversion: the wire options and the result
    translation,       \* one use of the error translator: the thrown value and the message
    apiConfig,         \* module-level API settings of the remote client
    fetch,             \* the remote request in flight, if any
    config,            \* ConfigProvider state
    facade,            \* the facade functions made by the last render of useFido2Api
    handler,           \* the ceremony handler of the page and what it did
    page,              \* the page's React state: status and message
    provider,          \* ConfigProvider: identity of its state, pending render
    localStorage       \* the entry under 'fido2-client-config'

\* the state of the mock relying party
mockVars == <<mockStorage, challengeStorage, now, lastCall, ceremonies, concluded, cleared>>

\* the state of the remote client
remoteVars == <<apiConfig, fetch>>

\* the state of the React layer
pageVars == <<config, facade, handler, page, provider, localStorage>>

\* the uses of the pure functions
pureVars == <<codec, conv, translation>>

vars == <<mockVars, pureVars, remoteVars, pageVars>>

----------------------------------------------------------------------------
(* Bounds of the model *)

MaxChallenges == 2      \* challenges generated in one run
MaxBytes == 3           \* length of a buffer given to the codec
MaxText == 3            \* length of a text given to the codec
MaxSteps == 4           \* time steps over which one remote request is observed
MaxDescriptors == 2     \* length of an excludeCredentials / allowCredentials list

(* Input domains *)

Usernames    == {"", "alice", "mock-user"}
DisplayNames == {"", "Alice D"}               \* "" stands for an absent displayName
CredIds      == {"cred-1", "cred-2"}         \* credential.id values
Attestations == {"att-A", "att-B"}            \* credential.response.attestationObject values

(* Program constants *)

ExpiryMs         == 5 * 60 * 1000
OptionsTimeoutMs == 60000
MockOwner        == "mock-user"
MockDisplayName  == "Mock User"
DiscoveredUser   == "discovered-user"

\* an optional array field of a response: undefined, or the array
Undefined   == [defined |-> FALSE, items |-> <<>>]
Defined(xs) == [defined |-> TRUE, items |-> xs]

\* the instants at which the model samples Date.now(): the start, the
\* millisecond after it, and the instant at which a challenge issued at the
\* start is just past its validity window and one issued a millisecond later
\* is exactly at the end of it
Instants == {0, 1, ExpiryMs + 1}

----------------------------------------------------------------------------
(* Map helpers *)

Range(s) == {s[i] : i \in 1 .. Len(s)}

RECURSIVE SeqFilter(_, _)
SeqFilter(s, keep) ==
    IF s = <<>> THEN <<>>
    ELSE IF Head(s) \in keep THEN <<Head(s)>> \o SeqFilter(Tail(s), keep)
         ELSE SeqFilter(Tail(s), keep)

CredKeys(store) == {store[i].credentialId : i \in 1 .. Len(store)}

\* Map.prototype.has / Map.prototype.get (get is used only where has holds)
CredHas(store, key) == key \in CredKeys(store)

CredGet(store, key) ==
    store[CHOOSE i \in 1 .. Len(store) : store[i].credentialId = key]

\* (mutation) setting a key drops every other entry
CredSetAlone(store, key, value) == <<value>>

\* Map.prototype.set: an existing key keeps its position and gets the new value
CredSet(store, key, value) ==
    IF key \in CredKeys(store)
    THEN [i \in 1 .. Len(store) |->
            IF store[i].credentialId = key THEN value ELSE store[i]]
    ELSE Append(store, value)

\* the (credential id, owning username) pairs of a credential store
Owners(store) == {<<store[i].credentialId, store[i].username>> : i \in 1 .. Len(store)}

ChallengeKeys(store) == {store[i].challenge : i \in 1 .. Len(store)}

ChallengeSet(store, key, value) ==
    IF key \in ChallengeKeys(store)
    THEN [i \in 1 .. Len(store) |->
            IF store[i].challenge = key THEN value ELSE store[i]]
    ELSE Append(store, value)

\* generateChallenge: 32 random bytes; modelled as a value never issued before
generateChallenge == Len(ceremonies) + 1

\* generateUserId: 16 random bytes; the model keeps one representative value
generateUserId == "user-id"

\* history: the time since the challenge was issued
Age(challenge) == now - ceremonies[challenge].issuedAt

\* a wire credential whose response member is present
HasResponse(credential) == "response" \in DOMAIN credential

\* history: the ceremony of the credential was already concluded / its
\* challenge was issued more than 5 minutes ago
IsReplay(credential) ==
    HasResponse(credential) /\ credential.response.clientDataJSON \in concluded

IsLate(credential) ==
    HasResponse(credential) /\ Age(credential.response.clientDataJSON) > ExpiryMs

----------------------------------------------------------------------------
MockInit ==
    /\ mockStorage = <<>>
    /\ challengeStorage = <<>>
    /\ now = 0
    /\ lastCall = [op |-> "init"]
    /\ ceremonies = <<>>
    /\ concluded = {}
    /\ cleared = [active |-> FALSE, owners |-> {}]

----------------------------------------------------------------------------
(* mockRegisterStart(request): lines 52-119 *)

\* (mutation) the filter on cred.username is dropped
CredentialsOfAnyUser(store, username) ==
    [i \in 1 .. Len(store) |-> [type |-> "public-key", id |-> store[i].credentialId]]

\* the credentials of one user, as {type, id} descriptors in Map order
CredentialsOf(store, username) ==
    LET owned == {store[i] : i \in {j \in 1 .. Len(store) : store[j].username = username}}
        kept  == SeqFilter(store, owned)
    IN  [i \in 1 .. Len(kept) |-> [type |-> "public-key", id |-> kept[i].credentialId]]

RegistrationOptions(request, challenge, userId) ==
    LET existingCredentials == CredentialsOf(mockStorage, request.username)
    IN  [ challenge |-> challenge,
          rp |-> [name |-> "FIDO2 Test Server (Mock)", id |-> "hostname"],
          user |-> [ id |-> userId,
                     name |-> request.username,
                     displayName |-> IF request.displayName # ""
                                     THEN request.displayName
                                     ELSE request.username ],
          pubKeyCredParams |-> << [type |-> "public-key", alg |-> -7],
                                  [type |-> "public-key", alg |-> -257] >>,
          timeout |-> OptionsTimeoutMs,
          attestation |-> "none",
          authenticatorSelection |-> [ authenticatorAttachment |-> "platform",
                                       residentKey |-> "preferred",
                                       userVerification |-> "preferred" ],
          excludeCredentials |-> IF Len(existingCredentials) > 0
                                 THEN Defined(existingCredentials)
                                 ELSE Undefined ]

mockRegisterStart(request) ==
    /\ Len(ceremonies) < MaxChallenges
    /\ LET challenge == generateChallenge
           userId    == generateUserId
       IN  /\ challengeStorage' =
                  ChallengeSet(challengeStorage, challenge,
                               [ challenge |-> challenge,
                                 username  |-> request.username,
                                 timestamp |-> now ])
           /\ lastCall' = [ op |-> "mockRegisterStart",
                            request |-> request,
                            response |-> RegistrationOptions(request, challenge, userId) ]
           /\ ceremonies' = Append(ceremonies,
                                   [ kind |-> "register",
                                     username |-> request.username,
                                     issuedAt |-> now ])
    /\ UNCHANGED <<mockStorage, now, concluded, cleared>>

----------------------------------------------------------------------------
(* mockRegisterFinish(credential): lines 124-163 *)

\* (mutation) the public key is taken from the wrong member of the credential
StoredCredentialOfRawId(credential) ==
    [ credentialId |-> credential.id,
      publicKey    |-> credential.id,
      username     |-> MockOwner,
      displayName  |-> MockDisplayName,
      createdAt    |-> now ]

StoredCredentialOf(credential) ==
    [ credentialId |-> credential.id,
      publicKey    |-> credential.response.attestationObject,
      username     |-> MockOwner,
      displayName  |-> MockDisplayName,
      createdAt    |-> now ]

\* the try block throws a TypeError at line 135 when the credential has no
\* response member (credential.response is undefined)
RegisterFinishThrows(credential) == ~HasResponse(credential)

RegisterFinishStore(credential) ==
    IF RegisterFinishThrows(credential)
    THEN mockStorage
    ELSE CredSet(mockStorage, credential.id, StoredCredentialOf(credential))

RegisterFinishResult(credential) ==
    IF RegisterFinishThrows(credential)
    THEN [ success |-> FALSE,
           message |-> "registration failed: TypeError" ]
    ELSE [ success |-> TRUE,
           credentialId |-> credential.id,
           message |-> "registered (Mock)" ]

\* (mutation) the error is not caught and leaves the function
RegisterFinishUncaught(credential) ==
    IF RegisterFinishThrows(credential) THEN "thrown" ELSE "returned"

\* how the call completes: the catch block turns an error into a return value
RegisterFinishOutcome(credential) == "returned"

mockRegisterFinish(credential) ==
    /\ mockStorage' = RegisterFinishStore(credential)
    /\ lastCall' = [ op |-> "mockRegisterFinish",
                     credential |-> credential,
                     replay |-> IsReplay(credential),
                     expired |-> IsLate(credential),
                     outcome |-> RegisterFinishOutcome(credential),
                     response |-> RegisterFinishResult(credential) ]
    /\ concluded' = IF RegisterFinishResult(credential).success
                    THEN concluded \cup {credential.response.clientDataJSON}
                    ELSE concluded
    /\ cleared' = IF RegisterFinishThrows(credential)
                  THEN cleared
                  ELSE [active |-> FALSE, owners |-> {}]
    /\ UNCHANGED <<challengeStorage, now, ceremonies>>

----------------------------------------------------------------------------
(* mockAuthStart(request): lines 168-221.  request.username = "" stands for *)
(* an absent username as well: both are falsy in `request.username || ''`. *)

\* (mutation) every stored credential is allowed, whoever asks
AllowEveryCredential(request) ==
    IF Len(mockStorage) > 0
    THEN Defined([i \in 1 .. Len(mockStorage) |->
                    [type |-> "public-key", id |-> mockStorage[i].credentialId]])
    ELSE Undefined

AllowCredentials(request) ==
    IF request.username # ""
    THEN LET userCredentials == CredentialsOf(mockStorage, request.username)
         IN  IF Len(userCredentials) > 0 THEN Defined(userCredentials) ELSE Undefined
    ELSE Undefined

AuthenticationOptions(request, challenge) ==
    [ challenge |-> challenge,
      timeout |-> OptionsTimeoutMs,
      rpId |-> "hostname",
      userVerification |-> "preferred",
      allowCredentials |-> AllowCredentials(request) ]

mockAuthStart(request) ==
    /\ Len(ceremonies) < MaxChallenges
    /\ LET challenge == generateChallenge
       IN  /\ challengeStorage' =
                  ChallengeSet(challengeStorage, challenge,
                               [ challenge |-> challenge,
                                 username  |-> request.username,
                                 timestamp |-> now ])
           /\ lastCall' = [ op |-> "mockAuthStart",
                            request |-> request,
                            response |-> AuthenticationOptions(request, challenge) ]
           /\ ceremonies' = Append(ceremonies,
                                   [ kind |-> "auth",
                                     username |-> request.username,
                                     issuedAt |-> now ])
    /\ UNCHANGED <<mockStorage, now, concluded, cleared>>

----------------------------------------------------------------------------
(* mockAuthFinish(credential): lines 226-267 *)

\* (mutation) the lookup result is ignored
AuthFinishAlwaysDiscovered(credential) ==
    [ success |-> TRUE,
      username |-> DiscoveredUser,
      message |-> "authenticated (Mock - Discoverable)" ]

AuthFinishResult(credential) ==
    LET storedCredential == CredGet(mockStorage, credential.id)
    IN  IF CredHas(mockStorage, credential.id)
        THEN [ success |-> TRUE,
               username |-> storedCredential.username,
               message |-> "authenticated (Mock)" ]
        ELSE [ success |-> TRUE,
               username |-> DiscoveredUser,
               message |-> "authenticated (Mock - Discoverable)" ]

\* nothing in the try block (Map.get, the logger) throws
AuthFinishOutcome(credential) == "returned"

mockAuthFinish(credential) ==
    /\ lastCall' = [ op |-> "mockAuthFinish",
                     credential |-> credential,
                     replay |-> IsReplay(credential),
                     expired |-> IsLate(credential),
                     outcome |-> AuthFinishOutcome(credential),
                     response |-> AuthFinishResult(credential) ]
    /\ concluded' = IF AuthFinishResult(credential).success /\ HasResponse(credential)
                    THEN concluded \cup {credential.response.clientDataJSON}
                    ELSE concluded
    /\ UNCHANGED <<mockStorage, challengeStorage, now, ceremonies, cleared>>

----------------------------------------------------------------------------
(* getMockCredentials(): lines 272-276 *)

getMockCredentials ==
    /\ lastCall' = [op |-> "getMockCredentials", response |-> mockStorage]
    /\ UNCHANGED <<mockStorage, challengeStorage, now, ceremonies, concluded, cleared>>

(* clearMockData(): lines 281-290 *)

\* (mutation) mockStorage.clear() is left out
CredentialsNotCleared == mockStorage

ClearedCredentials == <<>>

ClearedChallenges == <<>>

clearMockData ==
    /\ mockStorage' = ClearedCredentials
    /\ challengeStorage' = ClearedChallenges
    /\ lastCall' = [op |-> "clearMockData"]
    /\ cleared' = [active |-> TRUE, owners |-> Owners(mockStorage)]
    /\ UNCHANGED <<now, ceremonies, concluded>>

(* cleanupExpiredChallenges(): lines 295-313 *)

\* (mutation) the comparison with the expiry is not strict
IsExpiredAtExpiry(value, at) == at - value.timestamp >= ExpiryMs

IsExpired(value, at) == at - value.timestamp > ExpiryMs

\* (mutation) entries are removed from an indexed copy while it is walked: the
\* entry that follows a removed one is skipped
RECURSIVE SweptSkippingAfterDelete(_, _)
SweptSkippingAfterDelete(store, at) ==
    IF store = <<>> THEN <<>>
    ELSE IF IsExpired(Head(store), at)
         THEN IF Len(store) = 1 THEN <<>>
              ELSE <<store[2]>> \o SweptSkippingAfterDelete(Tail(Tail(store)), at)
         ELSE <<Head(store)>> \o SweptSkippingAfterDelete(Tail(store), at)

SweptChallenges(store, at) ==
    SeqFilter(store, {v \in Range(store) : ~IsExpired(v, at)})

cleanupExpiredChallenges ==
    /\ challengeStorage' = SweptChallenges(challengeStorage, now)
    /\ lastCall' = [ op |-> "cleanupExpiredChallenges",
                     at |-> now,
                     repeat |-> /\ lastCall.op = "cleanupExpiredChallenges"
                                /\ lastCall.at = now,
                     cleanedCount |-> Len(challengeStorage)
                                      - Len(SweptChallenges(challengeStorage, now)) ]
    /\ UNCHANGED <<mockStorage, now, ceremonies, concluded, cleared>>

(* The clock: Date.now() moves forward between calls *)

Tick(t) ==
    /\ t > now
    /\ now' = t
    /\ UNCHANGED <<mockStorage, challengeStorage, lastCall, ceremonies, concluded, cleared>>

----------------------------------------------------------------------------
(* Inputs *)

RegisterStartRequests ==
    [username : Usernames, displayName : DisplayNames]

AuthStartRequests == [username : Usernames]

\* the challenges a client can have received for a ceremony of the given kind
IssuedChallenges(kind) ==
    {c \in 1 .. Len(ceremonies) : ceremonies[c].kind = kind}

\* clientDataJSON is represented by the challenge it embeds
RegistrationCredentials ==
    { [ id |-> id, type |-> "public-key",
        response |-> [clientDataJSON |-> c, attestationObject |-> a] ] :
      id \in CredIds, c \in IssuedChallenges("register"), a \in Attestations }

AuthenticationCredentials ==
    { [ id |-> id, type |-> "public-key",
        response |-> [clientDataJSON |-> c] ] :
      id \in CredIds, c \in IssuedChallenges("auth") }

\* wire credentials that lack the response member
MalformedCredentials ==
    { [id |-> id, type |-> "public-key"] : id \in CredIds }

----------------------------------------------------------------------------
(* The Base64URL codec: src/src/services/encoding.ts, lines 9-41.           *)
(* A text is the sequence of its characters, a buffer the sequence of its   *)
(* bytes.                                                                   *)

\* the alphabet of btoa and atob, by sextet value
Base64Alphabet ==
    << "A", "B", "C", "D", "E", "F", "G", "H", "I", "J", "K", "L", "M",
       "N", "O", "P", "Q", "R", "S", "T", "U", "V", "W", "X", "Y", "Z",
       "a", "b", "c", "d", "e", "f", "g", "h", "i", "j", "k", "l", "m",
       "n", "o", "p", "q", "r", "s", "t", "u", "v", "w", "x", "y", "z",
       "0", "1", "2", "3", "4", "5", "6", "7", "8", "9", "+", "/" >>

Base64Chars == Range(Base64Alphabet)

UrlSafeChars == (Base64Chars \ {"+", "/"}) \cup {"-", "_"}

\* the characters atob skips: tab, line feed, form feed, carriage return, space
AsciiWhitespace == {"\t", "\n", "\f", "\r", " "}

SextetChar(n) == Base64Alphabet[n + 1]

SextetOf(c) == CHOOSE n \in 0 .. 63 : Base64Alphabet[n + 1] = c

\* String.prototype.replace(/from/g, to)
ReplaceAll(text, from, to) ==
    [i \in 1 .. Len(text) |-> IF text[i] = from THEN to ELSE text[i]]

\* String.prototype.replace(/c/g, '') for every c of chars
RECURSIVE RemoveAll(_, _)
RemoveAll(text, chars) ==
    IF text = <<>> THEN <<>>
    ELSE (IF Head(text) \in chars THEN <<>> ELSE <<Head(text)>>)
         \o RemoveAll(Tail(text), chars)

\* '='.repeat(n)
Repeat(c, n) == [i \in 1 .. n |-> c]

\* btoa on the binary string whose character codes are the bytes
RECURSIVE btoa(_)
btoa(binary) ==
    IF Len(binary) = 0 THEN <<>>
    ELSE IF Len(binary) = 1 THEN
        << SextetChar(binary[1] \div 4),
           SextetChar((binary[1] % 4) * 16), "=", "=" >>
    ELSE IF Len(binary) = 2 THEN
        << SextetChar(binary[1] \div 4),
           SextetChar((binary[1] % 4) * 16 + binary[2] \div 16),
           SextetChar((binary[2] % 16) * 4), "=" >>
    ELSE
        << SextetChar(binary[1] \div 4),
           SextetChar((binary[1] % 4) * 16 + binary[2] \div 16),
           SextetChar((binary[2] % 16) * 4 + binary[3] \div 64),
           SextetChar(binary[3] % 64) >>
        \o btoa(SubSeq(binary, 4, Len(binary)))

\* the bytes of a run of alphabet characters; the bits left over by a last
\* group of two or three characters are discarded
RECURSIVE SextetsToBytes(_)
SextetsToBytes(data) ==
    IF Len(data) < 2 THEN <<>>
    ELSE IF Len(data) = 2 THEN
        << SextetOf(data[1]) * 4 + SextetOf(data[2]) \div 16 >>
    ELSE IF Len(data) = 3 THEN
        << SextetOf(data[1]) * 4 + SextetOf(data[2]) \div 16,
           (SextetOf(data[2]) % 16) * 16 + SextetOf(data[3]) \div 4 >>
    ELSE
        << SextetOf(data[1]) * 4 + SextetOf(data[2]) \div 16,
           (SextetOf(data[2]) % 16) * 16 + SextetOf(data[3]) \div 4,
           (SextetOf(data[3]) % 4) * 64 + SextetOf(data[4]) >>
        \o SextetsToBytes(SubSeq(data, 5, Len(data)))

Returned(bytes) == [ok |-> TRUE, bytes |-> bytes, error |-> ""]

Thrown(error) == [ok |-> FALSE, bytes |-> <<>>, error |-> error]

\* atob: forgiving-base64 decode; throws InvalidCharacterError on failure
atob(data) ==
    LET stripped == RemoveAll(data, AsciiWhitespace)
        n        == Len(stripped)
        unpadded ==
            IF n > 0 /\ n % 4 = 0 /\ stripped[n] = "="
            THEN IF stripped[n - 1] = "="
                 THEN SubSeq(stripped, 1, n - 2)
                 ELSE SubSeq(stripped, 1, n - 1)
            ELSE stripped
    IN  IF \/ Len(unpadded) % 4 = 1
           \/ \E i \in 1 .. Len(unpadded) : unpadded[i] \notin Base64Chars
        THEN Thrown("InvalidCharacterError")
        ELSE Returned(SextetsToBytes(unpadded))

\* (mutation) the '=' padding is left in the output
ToUrlSafeKeepingPadding(base64) ==
    ReplaceAll(ReplaceAll(base64, "+", "-"), "/", "_")

\* lines 16-19
ToUrlSafe(base64) ==
    RemoveAll(ReplaceAll(ReplaceAll(base64, "+", "-"), "/", "_"), {"="})

\* lines 9-20
arrayBufferToBase64Url(buffer) == ToUrlSafe(btoa(buffer))

\* (mutation) '_' is not mapped back to '/'
FromUrlSafeKeepingUnderscore(base64url) ==
    ReplaceAll(base64url, "-", "+")

\* lines 27-29
FromUrlSafe(base64url) ==
    ReplaceAll(ReplaceAll(base64url, "-", "+"), "_", "/")

\* line 32
PaddingNeeded(base64) == (4 - (Len(base64) % 4)) % 4

\* lines 25-41
base64UrlToArrayBuffer(base64url) ==
    LET base64 == FromUrlSafe(base64url)
    IN  atob(base64 \o Repeat("=", PaddingNeeded(base64)))

\* the buffers and the texts the codec is exercised on
ByteValues == {0, 65, 251, 255}

ByteSeqs == UNION {[1 .. n -> ByteValues] : n \in 0 .. MaxBytes}

TextChars == {"A", "Q", "-", "_", "+", "/", "=", " "}

Texts == UNION {[1 .. n -> TextChars] : n \in 0 .. MaxText}

CodecIdle == codec = [pc |-> "idle", buffer |-> <<>>, text |-> <<>>,
                      result |-> Returned(<<>>)]

\* a caller holds a buffer to encode or a text to decode
CodecInput ==
    \/ \E buffer \in ByteSeqs :
           codec = [pc |-> "buffer", buffer |-> buffer, text |-> <<>>,
                    result |-> Returned(<<>>)]
    \/ \E text \in Texts :
           codec = [pc |-> "text", buffer |-> <<>>, text |-> text,
                    result |-> Returned(<<>>)]

\* text := arrayBufferToBase64Url(buffer)
Encode ==
    /\ codec.pc = "buffer"
    /\ codec' = [codec EXCEPT !.pc = "encoded",
                              !.text = arrayBufferToBase64Url(codec.buffer)]

\* result := base64UrlToArrayBuffer(text), on the text Encode produced
DecodeEncoded ==
    /\ codec.pc = "encoded"
    /\ codec' = [codec EXCEPT !.pc = "roundtrip",
                              !.result = base64UrlToArrayBuffer(codec.text)]

\* result := base64UrlToArrayBuffer(text), on a text received from outside
DecodeText ==
    /\ codec.pc = "text"
    /\ codec' = [codec EXCEPT !.pc = "decoded",
                              !.result = base64UrlToArrayBuffer(codec.text)]


----------------------------------------------------------------------------
(* The ceremony adapter: the options conversions of src/unnamed/part_004,   *)
(* lines 330-359 and 440-459. Wire options carry texts, platform options    *)
(* the bytes decoded from them.                                             *)

\* an optional scalar member of a wire object: undefined, or its value
Absent     == [defined |-> FALSE, value |-> ""]
Present(v) == [defined |-> TRUE, value |-> v]

\* the member is defined and not the empty string
Truthy(member) == member.defined /\ member.value # ""

\* x || fallback
OrElse(member, fallback) == IF Truthy(member) THEN member.value ELSE fallback

NoOptions == [none |-> TRUE]

ConvertReturned(options) == [ok |-> TRUE, options |-> options, error |-> ""]

ConvertThrown(error) == [ok |-> FALSE, options |-> NoOptions, error |-> error]

Decodes(text) == base64UrlToArrayBuffer(text).ok

Decoded(text) == base64UrlToArrayBuffer(text).bytes

\* (mutation) the descriptors come out in reverse order
DecodedDescriptorsReversed(items) ==
    [ i \in 1 .. Len(items) |->
        [ type |-> items[Len(items) + 1 - i].type,
          id |-> Decoded(items[Len(items) + 1 - i].id),
          transports |-> items[Len(items) + 1 - i].transports ] ]

\* lines 350-354 and 451-455: list.map((cred) => ({type, id: decode, transports}))
DecodedDescriptors(items) ==
    [ i \in 1 .. Len(items) |->
        [ type |-> items[i].type,
          id |-> Decoded(items[i].id),
          transports |-> items[i].transports ] ]

\* (mutation) an absent list is turned into an empty one
ConvertedListNeverAbsent(list) == Defined(DecodedDescriptors(list.items))

\* lines 349-355 and 450-456: if (list) { options.list = list.map(...) }
ConvertedList(list) ==
    IF list.defined THEN Defined(DecodedDescriptors(list.items)) ELSE Undefined

\* some descriptor id of the list makes the decoder throw
ListThrows(list) ==
    \E i \in 1 .. Len(list.items) : ~Decodes(list.items[i].id)

\* lines 330-359
convertRegistrationOptions(serverOptions) ==
    IF \/ ~Decodes(serverOptions.challenge)
       \/ ~Decodes(serverOptions.user.id)
       \/ ListThrows(serverOptions.excludeCredentials)
    THEN ConvertThrown("InvalidCharacterError")
    ELSE ConvertReturned(
           [ challenge |-> Decoded(serverOptions.challenge),
             rp |-> serverOptions.rp,
             user |-> [ id |-> Decoded(serverOptions.user.id),
                        name |-> serverOptions.user.name,
                        displayName |-> serverOptions.user.displayName ],
             pubKeyCredParams |-> serverOptions.pubKeyCredParams,
             timeout |-> serverOptions.timeout,
             attestation |-> OrElse(serverOptions.attestation, "none"),
             authenticatorSelection |->
                 IF Truthy(serverOptions.authenticatorSelection)
                 THEN serverOptions.authenticatorSelection
                 ELSE Absent,
             excludeCredentials |->
                 ConvertedList(serverOptions.excludeCredentials) ])

\* lines 440-459
convertAuthenticationOptions(serverOptions) ==
    IF \/ ~Decodes(serverOptions.challenge)
       \/ ListThrows(serverOptions.allowCredentials)
    THEN ConvertThrown("InvalidCharacterError")
    ELSE ConvertReturned(
           [ challenge |-> Decoded(serverOptions.challenge),
             timeout |-> serverOptions.timeout,
             rpId |-> serverOptions.rpId,
             userVerification |->
                 OrElse(serverOptions.userVerification, "preferred"),
             allowCredentials |->
                 ConvertedList(serverOptions.allowCredentials) ])

\* the texts a server puts on the wire; the last one is not decodable
WireTexts == { <<"-", "w">>, <<"_", "_", "8">>, <<"A">> }

WireDescriptors ==
    [type : {"public-key"}, id : WireTexts, transports : {"", "internal"}]

WireLists ==
    {Undefined} \cup
    { Defined(items) :
        items \in UNION {[1 .. n -> WireDescriptors] : n \in 0 .. MaxDescriptors} }

WireRegistrationOptions ==
    [ challenge : WireTexts,
      rp : {[name |-> "FIDO2 Test Server", id |-> "hostname"]},
      user : [id : {<<"A", "Q">>}, name : {"alice"}, displayName : {"Alice D"}],
      pubKeyCredParams : { << [type |-> "public-key", alg |-> -7],
                              [type |-> "public-key", alg |-> -257] >> },
      timeout : {OptionsTimeoutMs},
      attestation : {Absent, Present("direct")},
      authenticatorSelection : {Absent, Present("platform")},
      excludeCredentials : WireLists ]

WireAuthenticationOptions ==
    [ challenge : WireTexts,
      timeout : {OptionsTimeoutMs},
      rpId : {"hostname"},
      userVerification : {Absent, Present("required")},
      allowCredentials : WireLists ]

ConvIdle ==
    conv = [ pc |-> "idle", kind |-> "none", wire |-> NoOptions,
             result |-> ConvertThrown("") ]

\* options arrive from a relying party
ReceiveOptions(kind, wire) ==
    /\ conv.pc = "idle"
    /\ conv' = [conv EXCEPT !.pc = "received", !.kind = kind, !.wire = wire]
    /\ UNCHANGED <<codec, translation>>

ConvertRegistration ==
    /\ conv.pc = "received"
    /\ conv.kind = "registration"
    /\ conv' = [conv EXCEPT !.pc = "converted",
                            !.result = convertRegistrationOptions(conv.wire)]
    /\ UNCHANGED <<codec, translation>>

ConvertAuthentication ==
    /\ conv.pc = "received"
    /\ conv.kind = "authentication"
    /\ conv' = [conv EXCEPT !.pc = "converted",
                            !.result = convertAuthenticationOptions(conv.wire)]
    /\ UNCHANGED <<codec, translation>>


----------------------------------------------------------------------------
(* The ceremony error translator: getWebAuthnErrorMessage,                  *)
(* src/unnamed/part_004 lines 875-898. A message is the sequence of the     *)
(* parts it is concatenated from.                                           *)

\* the DOMException names the platform's credential API raises, and one more
DomNames ==
    { "NotAllowedError", "InvalidStateError", "NotSupportedError",
      "SecurityError", "AbortError", "NotFoundError", "DataError" }

ErrorMessages ==
    { "", "credential creation failed", "request timed out",
      "the operation either timed out or was not allowed",
      "no passkey found", "failed to fetch" }

\* what a catch clause can receive: a DOMException, another Error, or a
\* value that is no Error at all
DomException(name, message) ==
    [class |-> "DOMException", name |-> name, message |-> message]

PlainError(message) == [class |-> "Error", name |-> "Error", message |-> message]

TypeError(message) == [class |-> "Error", name |-> "TypeError", message |-> message]

NotAnError(type) == [class |-> type, name |-> "", message |-> ""]

ThrownValues ==
    {DomException(n, m) : n \in DomNames, m \in ErrorMessages}
    \cup {PlainError(m) : m \in ErrorMessages}
    \cup {TypeError(m) : m \in ErrorMessages}
    \cup {NotAnError(t) : t \in {"string", "undefined", "object"}}

UnknownErrorMessage == <<"unknown error">>

\* lines 877-890: switch (error.name)
DomMessage(error) ==
    CASE error.name = "NotAllowedError"    -> <<"cancelled or timed out">>
      [] error.name = "InvalidStateError"  -> <<"an authenticator is already registered">>
      [] error.name = "NotSupportedError"  -> <<"unsupported authentication method">>
      [] error.name = "SecurityError"      -> <<"security error, check the HTTPS connection">>
      [] error.name = "AbortError"         -> <<"authentication was aborted">>
      [] OTHER                             -> <<"authentication error: ", error.message>>

\* lines 875-898
getWebAuthnErrorMessage(error) ==
    IF error.class = "DOMException" THEN DomMessage(error)
    ELSE IF error.class = "Error" THEN <<error.message>>
    ELSE UnknownErrorMessage

TranslationIdle ==
    translation = [pc |-> "idle", error |-> NotAnError("undefined"), message |-> <<>>]

\* a catch clause receives a value
Catch(error) ==
    /\ translation.pc = "idle"
    /\ translation' = [translation EXCEPT !.pc = "caught", !.error = error]
    /\ UNCHANGED <<codec, conv>>

\* message := getWebAuthnErrorMessage(error)
Translate ==
    /\ translation.pc = "caught"
    /\ translation' = [translation EXCEPT
           !.pc = "translated",
           !.message = getWebAuthnErrorMessage(translation.error)]
    /\ UNCHANGED <<codec, conv>>


----------------------------------------------------------------------------
(* The remote client: fetchApi, src/src/services/encoding.ts lines 106-182. *)
(* One request is followed from the call to the moment its promise          *)
(* settles; elapsed is the time since the call, in ms.                      *)

DefaultTimeoutMs == 30000

\* the granularity at which the time of a request is observed
StepMs == DefaultTimeoutMs \div 3

\* the values config.timeout takes
Timeouts == {StepMs, DefaultTimeoutMs}

Endpoints ==
    { "/api/passkey/register/start", "/api/passkey/register/finish",
      "/api/passkey/auth/start", "/api/passkey/auth/finish" }

Pending == {"connecting", "waiting", "body"}

NoRequest ==
    [ phase |-> "idle", endpoint |-> "", timeout |-> 0, timer |-> "none",
      elapsed |-> 0, ok |-> FALSE, outcome |-> "none" ]

RemoteInit ==
    /\ apiConfig = [timeout |-> DefaultTimeoutMs]
    /\ fetch = NoRequest

\* lines 90-94
setApiConfig(timeout) ==
    /\ apiConfig.timeout # timeout
    /\ apiConfig' = [apiConfig EXCEPT !.timeout = timeout]
    /\ UNCHANGED fetch

\* lines 106-134: the timer is armed with apiConfig.timeout and fetch() starts
fetchApi(endpoint) ==
    /\ fetch.phase \notin Pending
    /\ fetch' = [ phase |-> "connecting", endpoint |-> endpoint,
                  timeout |-> apiConfig.timeout, timer |-> "armed",
                  elapsed |-> 0, ok |-> FALSE, outcome |-> "none" ]
    /\ UNCHANGED apiConfig

\* the connection is established and the request is sent
Connect ==
    /\ fetch.phase = "connecting"
    /\ fetch' = [fetch EXCEPT !.phase = "waiting"]
    /\ UNCHANGED apiConfig

\* line 137: clearTimeout(timeoutId) once fetch() has resolved
TimerAfterHeaders(timer) == "cleared"

\* lines 127-137: the response headers arrive and fetch() resolves
ResponseHeaders(ok) ==
    /\ fetch.phase = "waiting"
    /\ fetch' = [fetch EXCEPT !.phase = "body", !.ok = ok,
                              !.timer = TimerAfterHeaders(fetch.timer)]
    /\ UNCHANGED apiConfig

\* lines 145-159: response.text() or response.json() resolves
ResponseBody(parses) ==
    /\ fetch.phase = "body"
    /\ fetch' = [fetch EXCEPT
           !.phase = "settled",
           !.timer = "cleared",
           !.outcome = IF ~fetch.ok THEN "ApiError"
                       ELSE IF parses THEN "data"
                       ELSE "SyntaxError"]
    /\ UNCHANGED apiConfig

\* lines 160-175: fetch() or the body read rejects with a network error
NetworkError ==
    /\ fetch.phase \in Pending
    /\ fetch' = [fetch EXCEPT !.phase = "settled", !.timer = "cleared",
                              !.outcome = "NetworkError"]
    /\ UNCHANGED apiConfig

\* lines 124, 160-168: the timer fires, controller.abort() rejects the
\* request with AbortError and fetchApi throws the timeout error
TimerFires ==
    /\ fetch.phase \in Pending
    /\ fetch.timer = "armed"
    /\ fetch.elapsed >= fetch.timeout
    /\ fetch' = [fetch EXCEPT !.phase = "settled", !.timer = "fired",
                              !.outcome = "Timeout"]
    /\ UNCHANGED apiConfig

\* time passes while the request is pending; an armed timer fires when due
Elapse ==
    /\ fetch.phase \in Pending
    /\ fetch.elapsed + StepMs <= MaxSteps * StepMs
    /\ fetch.timer = "armed" => fetch.elapsed + StepMs <= fetch.timeout
    /\ fetch' = [fetch EXCEPT !.elapsed = fetch.elapsed + StepMs]
    /\ UNCHANGED apiConfig


----------------------------------------------------------------------------
(* The React layer: ConfigProvider (src/unnamed/part_003), the facade hook  *)
(* useFido2Api (src/src/hooks/useFido2Api.ts) and a ceremony handler of a   *)
(* page (SignupPage.handleSignup, LoginPage.handlePasskeyLogin).            *)
(*                                                                          *)
(* config is the provider's state. A render of the page reads it; the       *)
(* facade functions and the handlers that render creates close over the     *)
(* value it read. handler.api is the facade the running handler closed      *)
(* over.                                                                    *)

Backend(useMockServer) == IF useMockServer THEN "mock" ELSE "remote"

(* ConfigProvider: src/unnamed/part_003 *)

\* lines 49-54; timeout, which no control changes, is left out
DEFAULT_CONFIG ==
    [ serverUrl |-> "http://localhost:8080", useMockServer |-> FALSE,
      logoLanguage |-> "eng" ]

\* the values the server URL field of the panel is saved with
ServerUrls == {"http://localhost:8080", "https://fido.example", "https://rp.example"}

\* localStorage under STORAGE_KEY: no entry, or the saved configuration
NoItem == [saved |-> FALSE, value |-> DEFAULT_CONFIG]

Item(value) == [saved |-> TRUE, value |-> value]

\* lines 98-115, the lazy initial state: the saved configuration merged over
\* the defaults, or DEFAULT_CONFIG
InitialConfig(storage) ==
    IF storage.saved THEN storage.value ELSE DEFAULT_CONFIG

\* the provider after its first render. own: the state is an object of its
\* own and not DEFAULT_CONFIG itself; effect: a render whose config differs
\* from that of the render before is to be committed and its persistence
\* effect to run (the first render counts); reset: history, the last update
\* of the state was resetConfig
Mounted(storage) ==
    [own |-> storage.saved, effect |-> TRUE, reset |-> FALSE]

\* React commits the render that follows a state update, and runs its
\* effects, before it dispatches the next user event
Committed == ~provider.effect

\* the page before any ceremony
IdlePage == [status |-> "idle", message |-> <<>>]

NoResult == [returned |-> FALSE, success |-> FALSE, message |-> ""]

\* a ceremony handler: pc is the await it is suspended at, api the facade
\* functions it closed over, steps and routes the history of what it did
NoHandler ==
    [ pc |-> "idle", kind |-> "none", api |-> [useMockServer |-> FALSE],
      challenge |-> 0, wire |-> NoOptions, converted |-> ConvertThrown(""),
      credential |-> "", thrown |-> FALSE,
      error |-> NotAnError("undefined"), cause |-> "",
      result |-> NoResult, steps |-> <<>>, routes |-> <<>> ]

PageInit ==
    /\ localStorage = NoItem
    /\ config = InitialConfig(localStorage)
    /\ provider = Mounted(localStorage)
    /\ facade = [useMockServer |-> config.useMockServer]
    /\ handler = NoHandler
    /\ page = IdlePage

\* lines 147-149: setConfig(prev => ({...prev, ...updates})), always a new
\* object
updateConfig(updates) ==
    /\ config' =
           [ serverUrl |-> IF "serverUrl" \in DOMAIN updates
                           THEN updates.serverUrl ELSE config.serverUrl,
             useMockServer |-> IF "useMockServer" \in DOMAIN updates
                               THEN updates.useMockServer
                               ELSE config.useMockServer,
             logoLanguage |-> IF "logoLanguage" \in DOMAIN updates
                              THEN updates.logoLanguage
                              ELSE config.logoLanguage ]
    /\ provider' = [own |-> TRUE, effect |-> TRUE, reset |-> FALSE]
    /\ UNCHANGED localStorage

\* ServerConfigPanel.handleToggleMock: updateConfig with the negation of the
\* value the last render read
handleToggleMock ==
    /\ Committed
    /\ updateConfig([useMockServer |-> ~facade.useMockServer])
    /\ config' # config
    /\ UNCHANGED <<facade, handler, page>>

\* ServerConfigPanel.handleSave
handleSave(serverUrl) ==
    /\ Committed
    /\ updateConfig([serverUrl |-> serverUrl])
    /\ UNCHANGED <<facade, handler, page>>

\* ServerConfigPanel, the logo language buttons
selectLogoLanguage(language) ==
    /\ Committed
    /\ updateConfig([logoLanguage |-> language])
    /\ UNCHANGED <<facade, handler, page>>

\* lines 160-163: setConfig(DEFAULT_CONFIG), which React ignores when the
\* state is DEFAULT_CONFIG already, then localStorage.removeItem
resetConfig ==
    /\ Committed
    /\ config' = DEFAULT_CONFIG
    /\ provider' = [own |-> FALSE, effect |-> provider.own, reset |-> TRUE]
    /\ localStorage' = NoItem
    /\ UNCHANGED <<facade, handler, page>>

\* the render after the state changed is committed: useCallback makes new
\* facade functions when config.useMockServer, their dependency, differs,
\* and the persistence effect (lines 123-133) saves the configuration
Render ==
    /\ provider.effect
    /\ facade' = [useMockServer |-> config.useMockServer]
    /\ localStorage' = Item(config)
    /\ provider' = [provider EXCEPT !.effect = FALSE]
    /\ UNCHANGED <<config, handler, page>>

(* useFido2Api and the ceremony handlers of the pages *)

\* what a facade call leaves in the handler's record: the function called,
\* the backend it went to and the provider's flag at that moment
Routed(routes, api, fn) ==
    Append(routes, [ fn |-> fn, backend |-> Backend(api.useMockServer),
                     flag |-> config.useMockServer ])

StartFn(kind) == IF kind = "register" THEN "registerStart" ELSE "authStart"

FinishFn(kind) == IF kind = "register" THEN "registerFinish" ELSE "authFinish"

EndpointOf(fn) ==
    CASE fn = "registerStart"  -> "/api/passkey/register/start"
      [] fn = "registerFinish" -> "/api/passkey/register/finish"
      [] fn = "authStart"      -> "/api/passkey/auth/start"
      [] fn = "authFinish"     -> "/api/passkey/auth/finish"

PageUser == "alice"

\* what the form of a page sends to the start call: SignupPage and
\* RegisterPage a username, LoginPage.handlePasskeyLogin nothing,
\* AuthenticatePage a username or nothing
PageRequests(kind) ==
    IF kind = "register"
    THEN {[username |-> PageUser, displayName |-> ""]}
    ELSE {[username |-> ""], [username |-> PageUser]}

\* the bytes of the raw id the platform gives a credential, and the text
\* createCredential makes its id of
IdBytes(id) ==
    CASE id = "cred-1" -> <<251>>
      [] id = "cred-2" -> <<255, 65>>
      [] OTHER         -> <<0>>

IdText(id) == arrayBufferToBase64Url(IdBytes(id))

\* generateChallenge returns the base64url text of the random bytes
ChallengeText(challenge) == arrayBufferToBase64Url(<<challenge>>)

\* a descriptor list of the mock relying party as it is on the wire
DescriptorsOnWire(list) ==
    IF list.defined
    THEN Defined([ i \in 1 .. Len(list.items) |->
                     [ type |-> list.items[i].type,
                       id |-> IdText(list.items[i].id),
                       transports |-> "" ] ])
    ELSE Undefined

\* the responses of the mock start operations as the adapter reads them
RegistrationOnWire(response) ==
    [ challenge |-> ChallengeText(response.challenge),
      rp |-> response.rp,
      user |-> [ id |-> IdText(response.user.id),
                 name |-> response.user.name,
                 displayName |-> response.user.displayName ],
      pubKeyCredParams |-> response.pubKeyCredParams,
      timeout |-> response.timeout,
      attestation |-> Present(response.attestation),
      authenticatorSelection |->
          Present(response.authenticatorSelection.authenticatorAttachment),
      excludeCredentials |-> DescriptorsOnWire(response.excludeCredentials) ]

AuthenticationOnWire(response) ==
    [ challenge |-> ChallengeText(response.challenge),
      timeout |-> response.timeout,
      rpId |-> response.rpId,
      userVerification |-> Present(response.userVerification),
      allowCredentials |-> DescriptorsOnWire(response.allowCredentials) ]

\* the options a remote relying party answers a start call with: well
\* formed ones and one whose challenge is not decodable
RemoteRegistrationOptions ==
    { [ challenge |-> c,
        rp |-> [name |-> "FIDO2 Test Server", id |-> "hostname"],
        user |-> [id |-> <<"A", "Q">>, name |-> PageUser, displayName |-> PageUser],
        pubKeyCredParams |-> << [type |-> "public-key", alg |-> -7] >>,
        timeout |-> OptionsTimeoutMs,
        attestation |-> Absent,
        authenticatorSelection |-> Absent,
        excludeCredentials |->
            Defined(<< [type |-> "public-key", id |-> <<"-", "w">>,
                        transports |-> "internal"] >>) ] :
      c \in {<<"_", "_", "8">>, <<"A">>} }

RemoteAuthenticationOptions ==
    { [ challenge |-> <<"_", "_", "8">>,
        timeout |-> OptionsTimeoutMs,
        rpId |-> "hostname",
        userVerification |-> Absent,
        allowCredentials |-> list ] :
      list \in { Undefined, Defined(<<>>),
                 Defined(<< [type |-> "public-key", id |-> <<"-", "w">>,
                             transports |-> "internal"],
                            [type |-> "public-key", id |-> <<"_", "_", "8">>,
                             transports |-> ""] >>),
                 Defined(<< [type |-> "public-key", id |-> <<"A">>,
                             transports |-> ""] >>) } }

RemoteOptions(kind) ==
    IF kind = "register"
    THEN RemoteRegistrationOptions ELSE RemoteAuthenticationOptions

\* the pages call the conversion of their ceremony
Convert(kind, wire) ==
    IF kind = "register"
    THEN convertRegistrationOptions(wire)
    ELSE convertAuthenticationOptions(wire)

\* what fetchApi throws for the outcome of the request
FetchError(outcome) ==
    CASE outcome = "Timeout"      -> PlainError("request timed out")
      [] outcome = "ApiError"     -> PlainError("API error")
      [] outcome = "NetworkError" -> TypeError("failed to fetch")
      [] OTHER -> [class |-> "Error", name |-> "SyntaxError",
                   message |-> "unexpected token"]

\* (mutation) a null credential is reported as a cancellation
NoCredentialAsNotAllowed(kind) ==
    DomException("NotAllowedError", "credential creation failed")

\* what createCredential / getCredential throws when the platform returns
\* null: part_004 lines 559-561 and 716-718
NoCredentialError(kind) ==
    PlainError(IF kind = "register"
               THEN "credential creation failed"
               ELSE "credential retrieval failed")

\* the DOMExceptions the platform rejects a prompt with
PlatformErrors == {"NotAllowedError", "InvalidStateError"}

\* (mutation) the page stays ready while its handler runs
SubmitStatusIdle == "idle"

\* setStep('creating') / setStep('authenticating') / status: 'loading'
SubmitStatus == "loading"

\* (mutation) the handler does not look at result.success
StatusAfterFinishUnchecked(result) == "success"

\* if (result.success) ... else ...
StatusAfterFinish(result) == IF result.success THEN "success" ELSE "error"

\* the catch block of a handler
ErrorPage(error) ==
    [status |-> "error", message |-> getWebAuthnErrorMessage(error)]

Caught(h, cause, error) ==
    [h EXCEPT !.pc = "done", !.thrown = TRUE, !.error = error, !.cause = cause]

\* the page after a step of its handler that may have thrown
PageAfter(h) == IF h.thrown THEN ErrorPage(h.error) ELSE page

\* the page after the finish call returned result
PageAfterFinish(result) ==
    [ status |-> StatusAfterFinish(result),
      message |-> IF result.success THEN <<>> ELSE <<result.message>> ]

\* the handler calls the start function of the facade it was made with
Started(kind, api) ==
    [NoHandler EXCEPT !.pc = "awaitStart", !.kind = kind, !.api = api,
                      !.steps = <<"start">>,
                      !.routes = Routed(<<>>, api, StartFn(kind))]

\* the start call returned wire options: the handler converts them and, when
\* the conversion did not throw, calls the platform
OptionsArrived(h, challenge, wire) ==
    LET converted == Convert(h.kind, wire)
        read == [h EXCEPT !.challenge = challenge, !.wire = wire,
                          !.converted = converted,
                          !.steps = Append(h.steps, "convert")]
    IN  IF converted.ok
        THEN [read EXCEPT !.pc = "prompt",
                          !.steps = Append(read.steps, "platform")]
        ELSE Caught(read, "convert",
                    DomException(converted.error, "invalid character"))

\* a control that starts a ceremony is enabled: the buttons are disabled, or
\* not rendered at all, while the status is the one set at submission
ControlEnabled == page.status # "loading"

\* the user may submit
CanSubmit == ControlEnabled /\ Committed

\* the validation at the head of a handler fails (a checkbox not ticked, no
\* WebAuthn support): the handler returns before the start call
SubmitInvalid(kind) ==
    /\ CanSubmit
    /\ handler' = [NoHandler EXCEPT !.pc = "done", !.kind = kind]
    /\ page' = [status |-> "error", message |-> <<"invalid form">>]
    /\ UNCHANGED <<config, facade, provider, localStorage>>

\* the handler of the last render runs, with the facade functions of that
\* render, up to its first suspension. Mock branch of handleRegisterStart /
\* handleAuthStart: the mock operation has no await, so the handler goes on
\* to the conversion and the platform call.
SubmitMock(kind, request) ==
    /\ CanSubmit
    /\ facade.useMockServer
    /\ IF kind = "register"
       THEN mockRegisterStart(request)
       ELSE mockAuthStart(request)
    /\ LET wire == IF kind = "register"
                   THEN RegistrationOnWire(
                            RegistrationOptions(request, generateChallenge,
                                                generateUserId))
                   ELSE AuthenticationOnWire(
                            AuthenticationOptions(request, generateChallenge))
           h == OptionsArrived(Started(kind, facade), generateChallenge, wire)
       IN  /\ handler' = h
           /\ page' = IF h.thrown THEN ErrorPage(h.error)
                      ELSE [status |-> SubmitStatus, message |-> <<>>]
    /\ UNCHANGED <<config, facade, provider, localStorage>>

\* remote branch: the handler waits for the request
SubmitRemote(kind) ==
    /\ CanSubmit
    /\ ~facade.useMockServer
    /\ fetchApi(EndpointOf(StartFn(kind)))
    /\ handler' = Started(kind, facade)
    /\ page' = [status |-> SubmitStatus, message |-> <<>>]
    /\ UNCHANGED <<config, facade, provider, localStorage>>

\* the remote start call failed: the handler catches what fetchApi threw
StartFailed ==
    /\ handler.pc = "awaitStart"
    /\ fetch.phase = "settled"
    /\ fetch.outcome # "data"
    /\ handler' = Caught(handler, "start", FetchError(fetch.outcome))
    /\ page' = PageAfter(handler')
    /\ UNCHANGED <<config, facade, provider, localStorage>>

\* the remote start call returned options
StartSettled(wire) ==
    /\ handler.pc = "awaitStart"
    /\ fetch.phase = "settled"
    /\ fetch.outcome = "data"
    /\ handler' = OptionsArrived(handler, 0, wire)
    /\ page' = PageAfter(handler')
    /\ UNCHANGED <<config, facade, provider, localStorage>>

\* the wire credential the handler passes to the finish call
HandlerCredential(id) ==
    IF handler.kind = "register"
    THEN [ id |-> id, type |-> "public-key",
           response |-> [ clientDataJSON |-> handler.challenge,
                          attestationObject |-> "att-A" ] ]
    ELSE [ id |-> id, type |-> "public-key",
           response |-> [clientDataJSON |-> handler.challenge] ]

\* (mutation) the finish call is routed by the provider's flag of the moment
FinishBackendLive == Backend(config.useMockServer)

\* the finish function the handler holds is the one of its render
FinishBackend == Backend(handler.api.useMockServer)

FinishRouted ==
    Append(handler.routes,
           [ fn |-> FinishFn(handler.kind), backend |-> FinishBackend,
             flag |-> config.useMockServer ])

\* createCredential / getCredential resolves and the handler calls the
\* finish function it holds. Mock branch of handleRegisterFinish /
\* handleAuthFinish; the handler then tests result.success.
PromptResolvesMock(id) ==
    /\ handler.pc = "prompt"
    /\ FinishBackend = "mock"
    /\ IF handler.kind = "register"
       THEN mockRegisterFinish(HandlerCredential(id))
       ELSE mockAuthFinish(HandlerCredential(id))
    /\ LET response == IF handler.kind = "register"
                       THEN RegisterFinishResult(HandlerCredential(id))
                       ELSE AuthFinishResult(HandlerCredential(id))
           result == [ returned |-> TRUE, success |-> response.success,
                       message |-> response.message ]
       IN  /\ handler' = [handler EXCEPT
                  !.pc = "done", !.credential = id, !.result = result,
                  !.steps = Append(handler.steps, "finish"),
                  !.routes = FinishRouted]
           /\ page' = PageAfterFinish(result)
    /\ UNCHANGED <<config, facade, provider, localStorage>>

\* remote branch
PromptResolvesRemote(id) ==
    /\ handler.pc = "prompt"
    /\ FinishBackend = "remote"
    /\ fetchApi(EndpointOf(FinishFn(handler.kind)))
    /\ handler' = [handler EXCEPT
           !.pc = "awaitFinish", !.credential = id,
           !.steps = Append(handler.steps, "finish"),
           !.routes = FinishRouted]
    /\ UNCHANGED <<config, facade, page, provider, localStorage>>

\* the platform resolves with null
PromptReturnsNull ==
    /\ handler.pc = "prompt"
    /\ handler' = Caught(handler, "noCredential", NoCredentialError(handler.kind))
    /\ page' = PageAfter(handler')
    /\ UNCHANGED <<config, facade, provider, localStorage>>

\* the platform rejects (the user cancels, the authenticator is excluded)
PromptRejects(name) ==
    /\ handler.pc = "prompt"
    /\ handler' = Caught(handler, "platform",
                         DomException(name, "the operation either timed out or was not allowed"))
    /\ page' = PageAfter(handler')
    /\ UNCHANGED <<config, facade, provider, localStorage>>

\* the remote finish call failed
FinishFailed ==
    /\ handler.pc = "awaitFinish"
    /\ fetch.phase = "settled"
    /\ fetch.outcome # "data"
    /\ handler' = Caught(handler, "finish", FetchError(fetch.outcome))
    /\ page' = PageAfter(handler')
    /\ UNCHANGED <<config, facade, provider, localStorage>>

\* the remote finish call returned the server's verdict
FinishSettled(success) ==
    /\ handler.pc = "awaitFinish"
    /\ fetch.phase = "settled"
    /\ fetch.outcome = "data"
    /\ LET result == [ returned |-> TRUE, success |-> success,
                       message |-> IF success THEN "verified" ELSE "refused" ]
       IN  /\ handler' = [handler EXCEPT !.pc = "done", !.result = result]
           /\ page' = PageAfterFinish(result)
    /\ UNCHANGED <<config, facade, provider, localStorage>>

\* the browser reloads the page: the module state of every script is
\* initialised anew, localStorage stays, and the provider mounts again.
\* lastCall.stored is the history of what the credential store held.
Reload ==
    /\ mockStorage' = <<>>
    /\ challengeStorage' = <<>>
    /\ lastCall' = [op |-> "reload", stored |-> CredKeys(mockStorage)]
    /\ apiConfig' = [timeout |-> DefaultTimeoutMs]
    /\ fetch' = NoRequest
    /\ config' = InitialConfig(localStorage)
    /\ provider' = Mounted(localStorage)
    /\ facade' = [useMockServer |-> InitialConfig(localStorage).useMockServer]
    /\ handler' = NoHandler
    /\ page' = IdlePage
    /\ UNCHANGED <<now, ceremonies, concluded, cleared, localStorage, pureVars>>

----------------------------------------------------------------------------
(* Specifications *)

Init ==
    /\ MockInit /\ CodecIdle /\ ConvIdle /\ TranslationIdle
    /\ RemoteInit /\ PageInit

\* what the operations of the mock relying party leave alone
MockFrame == UNCHANGED <<pureVars, remoteVars, pageVars>>

\* the endpoints of the mock relying party, called at one instant
StoreNext ==
    \/ \E request \in RegisterStartRequests :
           mockRegisterStart(request) /\ MockFrame
    \/ \E credential \in RegistrationCredentials \cup MalformedCredentials :
           mockRegisterFinish(credential) /\ MockFrame
    \/ \E request \in AuthStartRequests : mockAuthStart(request) /\ MockFrame
    \/ \E credential \in AuthenticationCredentials \cup MalformedCredentials :
           mockAuthFinish(credential) /\ MockFrame
    \/ getMockCredentials /\ MockFrame
    \/ clearMockData /\ MockFrame
    \/ cleanupExpiredChallenges /\ MockFrame

\* the endpoints, with time passing between the calls
Next ==
    \/ StoreNext
    \/ \E t \in Instants : Tick(t) /\ MockFrame

Spec == Init /\ [][Next]_vars

StoreSpec == Init /\ [][StoreNext]_vars

\* the life of a challenge: issued by a start operation, aged by the clock,
\* removed by the sweep only
SweepNext ==
    \/ \E request \in RegisterStartRequests :
           mockRegisterStart(request) /\ MockFrame
    \/ \E request \in AuthStartRequests : mockAuthStart(request) /\ MockFrame
    \/ cleanupExpiredChallenges /\ MockFrame
    \/ \E t \in Instants : Tick(t) /\ MockFrame

SweepSpec == Init /\ [][SweepNext]_vars

\* the codec applied to every buffer and every text of the input domains
CodecInit ==
    /\ MockInit /\ CodecInput /\ ConvIdle /\ TranslationIdle
    /\ RemoteInit /\ PageInit

CodecFrame == UNCHANGED <<mockVars, conv, translation, remoteVars, pageVars>>

CodecNext ==
    \/ Encode /\ CodecFrame
    \/ DecodeEncoded /\ CodecFrame
    \/ DecodeText /\ CodecFrame

CodecSpec == CodecInit /\ [][CodecNext]_vars

\* the options conversions applied to every wire options object of the
\* input domains
PureFrame == UNCHANGED <<mockVars, remoteVars, pageVars>>

ConvertNext ==
    \/ \E wire \in WireRegistrationOptions :
           ReceiveOptions("registration", wire) /\ PureFrame
    \/ \E wire \in WireAuthenticationOptions :
           ReceiveOptions("authentication", wire) /\ PureFrame
    \/ ConvertRegistration /\ PureFrame
    \/ ConvertAuthentication /\ PureFrame

ConvertSpec == Init /\ [][ConvertNext]_vars

\* the error translator applied to every thrown value of the input domain
TranslateNext ==
    \/ \E error \in ThrownValues : Catch(error) /\ PureFrame
    \/ Translate /\ PureFrame

TranslateSpec == Init /\ [][TranslateNext]_vars

\* remote requests, one at a time, under every configured timeout
RemoteFrame == UNCHANGED <<mockVars, pureVars, pageVars>>

FetchNext ==
    \/ \E timeout \in Timeouts : setApiConfig(timeout) /\ RemoteFrame
    \/ \E endpoint \in Endpoints : fetchApi(endpoint) /\ RemoteFrame
    \/ Connect /\ RemoteFrame
    \/ \E ok \in BOOLEAN : ResponseHeaders(ok) /\ RemoteFrame
    \/ \E parses \in BOOLEAN : ResponseBody(parses) /\ RemoteFrame
    \/ NetworkError /\ RemoteFrame
    \/ TimerFires /\ RemoteFrame
    \/ Elapse /\ RemoteFrame

FetchSpec == Init /\ [][FetchNext]_vars

\* a page running ceremonies through the facade while the user may switch
\* the backend; the clock of the mock relying party and the request timer
\* are left out
PageFrame == UNCHANGED <<mockVars, pureVars, remoteVars>>

FacadeNext ==
    \/ handleToggleMock /\ PageFrame
    \/ Render /\ PageFrame
    \/ \E kind \in {"register", "auth"} : SubmitInvalid(kind) /\ PageFrame
    \/ \E kind \in {"register", "auth"} : \E request \in PageRequests(kind) :
           SubmitMock(kind, request) /\ UNCHANGED <<pureVars, remoteVars>>
    \/ \E kind \in {"register", "auth"} :
           SubmitRemote(kind) /\ UNCHANGED <<mockVars, pureVars>>
    \/ StartFailed /\ PageFrame
    \/ \E wire \in RemoteOptions(handler.kind) : StartSettled(wire) /\ PageFrame
    \/ \E id \in CredIds :
           PromptResolvesMock(id) /\ UNCHANGED <<pureVars, remoteVars>>
    \/ \E id \in CredIds :
           PromptResolvesRemote(id) /\ UNCHANGED <<mockVars, pureVars>>
    \/ PromptReturnsNull /\ PageFrame
    \/ \E name \in PlatformErrors : PromptRejects(name) /\ PageFrame
    \/ FinishFailed /\ PageFrame
    \/ \E success \in BOOLEAN : FinishSettled(success) /\ PageFrame
    \/ Connect /\ UNCHANGED <<mockVars, pureVars, pageVars>>
    \/ \E ok \in BOOLEAN :
           ResponseHeaders(ok) /\ UNCHANGED <<mockVars, pureVars, pageVars>>
    \/ \E parses \in BOOLEAN :
           ResponseBody(parses) /\ UNCHANGED <<mockVars, pureVars, pageVars>>
    \/ NetworkError /\ UNCHANGED <<mockVars, pureVars, pageVars>>

FacadeSpec == Init /\ [][FacadeNext]_vars

\* the configuration panel: the user changes settings, resets them and
\* reloads the page
ConfigNext ==
    \/ handleToggleMock /\ PageFrame
    \/ \E serverUrl \in ServerUrls : handleSave(serverUrl) /\ PageFrame
    \/ \E language \in {"eng", "kor"} : selectLogoLanguage(language) /\ PageFrame
    \/ resetConfig /\ PageFrame
    \/ Render /\ PageFrame
    \/ Reload

ConfigSpec == Init /\ [][ConfigNext]_vars

\* the mock relying party in a page the user may reload
ReloadNext ==
    \/ StoreNext
    \/ Reload

ReloadSpec == Init /\ [][ReloadNext]_vars

\* the endpoints as the client of one user calls them
CredentialNext ==
    \/ \E request \in {r \in RegisterStartRequests : r.username = PageUser} :
           mockRegisterStart(request) /\ MockFrame
    \/ \E credential \in RegistrationCredentials \cup MalformedCredentials :
           mockRegisterFinish(credential) /\ MockFrame
    \/ \E request \in {r \in AuthStartRequests : r.username \in {"", PageUser}} :
           mockAuthStart(request) /\ MockFrame
    \/ \E credential \in AuthenticationCredentials \cup MalformedCredentials :
           mockAuthFinish(credential) /\ MockFrame
    \/ getMockCredentials /\ MockFrame
    \/ clearMockData /\ MockFrame
    \/ cleanupExpiredChallenges /\ MockFrame

CredentialSpec == Init /\ [][CredentialNext]_vars

TypeOK ==
    /\ now \in Instants
    /\ Len(ceremonies) <= MaxChallenges
    /\ concluded \subseteq 1 .. Len(ceremonies)
    /\ ChallengeKeys(challengeStorage) \subseteq 1 .. Len(ceremonies)
    /\ Cardinality(ChallengeKeys(challengeStorage)) = Len(challengeStorage)
    /\ Cardinality(CredKeys(mockStorage)) = Len(mockStorage)
    /\ CredKeys(mockStorage) \subseteq CredIds

----------------------------------------------------------------------------
(* Properties *)

IsFinish(call) == call.op \in {"mockRegisterFinish", "mockAuthFinish"}

\* the challenge of the ceremony a finish call belongs to
CeremonyOf(call) == call.credential.response.clientDataJSON

DescriptorIds(list) == {list.items[i].id : i \in 1 .. Len(list.items)}

OwnedIds(username) ==
    {mockStorage[i].credentialId :
        i \in {j \in 1 .. Len(mockStorage) : mockStorage[j].username = username}}

\* an optional descriptor list holds exactly the given ids, once each, and is
\* undefined when there are none
ListsExactly(list, ids) ==
    /\ list.defined <=> ids # {}
    /\ Len(list.items) = Cardinality(ids)
    /\ DescriptorIds(list) = ids

(* C1: a finish call for a ceremony that an earlier finish call already
   concluded successfully does not return success:true. *)
C1_SingleSuccessfulFinish ==
    (IsFinish(lastCall) /\ lastCall.replay) => ~lastCall.response.success

(* C2: a finish call made more than 5 minutes after the challenge of its
   ceremony was issued does not return success:true. *)
C2_ExpiredChallengeRejected ==
    (IsFinish(lastCall) /\ lastCall.expired) => ~lastCall.response.success

(* C3: the credential stored by a successful mockRegisterFinish is owned by
   the username given to the mockRegisterStart of its ceremony, and
   mockAuthFinish for its id reports that username. *)
C3_CredentialBoundToCeremonyUser ==
    (lastCall.op = "mockRegisterFinish" /\ lastCall.response.success) =>
        LET id    == lastCall.credential.id
            owner == ceremonies[CeremonyOf(lastCall)].username
        IN  /\ CredHas(mockStorage, id)
            /\ CredGet(mockStorage, id).username = owner
            /\ AuthFinishResult([id |-> id]).username = owner

(* C4: a mockRegisterStart(u) that follows a successful mockRegisterFinish of
   a ceremony started by u lists the stored credential id in
   excludeCredentials. *)
C4_LaterRegisterStartExcludes ==
    [][ ( /\ lastCall.op = "mockRegisterFinish"
          /\ lastCall.response.success
          /\ lastCall'.op = "mockRegisterStart"
          /\ lastCall'.request.username = ceremonies[CeremonyOf(lastCall)].username )
        => lastCall.credential.id \in DescriptorIds(lastCall'.response.excludeCredentials)
      ]_vars

(* C5: mockRegisterStart(u) returns in excludeCredentials exactly the ids of
   the stored credentials owned by u, once each, and no list when u owns none. *)
C5_ExcludeExactlyOwned ==
    lastCall.op = "mockRegisterStart" =>
        ListsExactly(lastCall.response.excludeCredentials,
                     OwnedIds(lastCall.request.username))

C5_Witness ==
    /\ lastCall.op = "mockRegisterStart"
    /\ Len(lastCall.response.excludeCredentials.items) = 2
    /\ Len(mockStorage) = 2

(* C6: mockAuthStart with a username lists in allowCredentials exactly the
   stored credential ids owned by that user (no list when there are none);
   without a username it returns no list. *)
C6_AllowCredentialsByUsername ==
    lastCall.op = "mockAuthStart" =>
        IF lastCall.request.username # ""
        THEN ListsExactly(lastCall.response.allowCredentials,
                          OwnedIds(lastCall.request.username))
        ELSE ~lastCall.response.allowCredentials.defined

C6_Witness ==
    /\ lastCall.op = "mockAuthStart"
    /\ lastCall.request.username # ""
    /\ lastCall.response.allowCredentials.defined

(* C7: mockAuthFinish returns success:true with the owner of the presented
   credential id when the id is stored, and success:true with the placeholder
   identity when it is not; the placeholder is not reported for a stored id. *)
C7_AuthFinishReportsOwner ==
    lastCall.op = "mockAuthFinish" =>
        LET id     == lastCall.credential.id
            result == lastCall.response
        IN  /\ result.success
            /\ IF id \in CredKeys(mockStorage)
               THEN /\ <<id, result.username>> \in Owners(mockStorage)
                    /\ result.username # DiscoveredUser
               ELSE result.username = DiscoveredUser

C7_Witness ==
    /\ lastCall.op = "mockAuthFinish"
    /\ lastCall.credential.id \in CredKeys(mockStorage)

(* C8: a challenge is removed from the challenge store by the finish call
   that consumes it successfully. *)
C8_ConsumedChallengeRemoved ==
    (IsFinish(lastCall) /\ lastCall.response.success /\ HasResponse(lastCall.credential)) =>
        CeremonyOf(lastCall) \notin ChallengeKeys(challengeStorage)

(* C9: clearMockData empties both collections; until the next
   mockRegisterFinish, mockAuthFinish for an id stored before the clear does
   not report its previous owner (it fails or reports the placeholder), and
   mockRegisterStart and mockAuthStart list no credentials. *)
C9_ClearAllForgetsCredentials ==
    /\ lastCall.op = "clearMockData" =>
           (mockStorage = <<>> /\ challengeStorage = <<>>)
    /\ cleared.active =>
           /\ mockStorage = <<>>
           /\ lastCall.op = "mockAuthFinish" =>
                  \A pair \in cleared.owners :
                      pair[1] = lastCall.credential.id =>
                          /\ lastCall.response.username # pair[2]
                          /\ \/ ~lastCall.response.success
                             \/ lastCall.response.username = DiscoveredUser
           /\ lastCall.op = "mockRegisterStart" =>
                  ~lastCall.response.excludeCredentials.defined
           /\ lastCall.op = "mockAuthStart" =>
                  ~lastCall.response.allowCredentials.defined

C9_Witness ==
    /\ cleared.active
    /\ lastCall.op = "mockAuthFinish"
    /\ <<lastCall.credential.id, MockOwner>> \in cleared.owners

(* C10: the record stored under a credential id does not change while the id
   stays in the credential store. *)
C10_StoredCredentialImmutable ==
    [][ \A id \in CredKeys(mockStorage) \cap CredKeys(mockStorage') :
            CredGet(mockStorage, id) = CredGet(mockStorage', id) ]_vars

\* a step that runs cleanupExpiredChallenges (or leaves everything as it is
\* right after a run)
IsSweepStep ==
    /\ lastCall'.op = "cleanupExpiredChallenges"
    /\ lastCall'.at = now
    /\ now' = now

(* C11: cleanupExpiredChallenges removes exactly the challenges older than 5
   minutes at the time of the call; every challenge aged 5 minutes or less
   stays, with its username and timestamp. *)
C11_SweepRemovesExactlyExpired ==
    [][ IsSweepStep =>
          /\ \A i \in 1 .. Len(challengeStorage) :
                 LET entry == challengeStorage[i]
                 IN  IF now - entry.timestamp > ExpiryMs
                     THEN entry.challenge \notin ChallengeKeys(challengeStorage')
                     ELSE entry \in Range(challengeStorage')
          /\ Range(challengeStorage') \subseteq Range(challengeStorage)
          /\ Len(challengeStorage') = Cardinality(Range(challengeStorage'))
      ]_vars

\* a sweep has just removed a challenge and kept one aged exactly 5 minutes
C11_Witness ==
    /\ lastCall.op = "cleanupExpiredChallenges"
    /\ lastCall.at = now
    /\ lastCall.cleanedCount > 0
    /\ \E i \in 1 .. Len(challengeStorage) :
           now - challengeStorage[i].timestamp = ExpiryMs

(* C12: a second cleanupExpiredChallenges with no time elapsed since the
   first deletes nothing and leaves the challenge store as it is. *)
C12_SweepIdempotent ==
    [][ ( /\ lastCall.op = "cleanupExpiredChallenges"
          /\ lastCall.at = now
          /\ IsSweepStep )
        => /\ challengeStorage' = challengeStorage
           /\ lastCall'.cleanedCount = 0
      ]_vars

\* a sweep has run right after the sweep that removed a challenge
C12_Witness ==
    /\ lastCall.op = "cleanupExpiredChallenges"
    /\ lastCall.at = now
    /\ lastCall.repeat
    /\ \E c \in 1 .. Len(ceremonies) : c \notin ChallengeKeys(challengeStorage)
    /\ challengeStorage # <<>>

(* C13: a successful mockRegisterFinish returns the id of the presented
   credential as credentialId, and the credential store then holds under that
   id a record whose public key is the presented attestation payload. *)
C13_RegisterFinishStoresPresented ==
    (lastCall.op = "mockRegisterFinish" /\ lastCall.response.success) =>
        LET id == lastCall.credential.id
        IN  /\ lastCall.response.credentialId = id
            /\ CredHas(mockStorage, id)
            /\ CredGet(mockStorage, id).credentialId = id
            /\ CredGet(mockStorage, id).publicKey =
                   lastCall.credential.response.attestationObject

C13_Witness ==
    /\ lastCall.op = "mockRegisterFinish"
    /\ lastCall.response.success
    /\ Len(mockStorage) = 2

(* C14: mockRegisterFinish and mockAuthFinish complete by returning a result
   object for every wire credential; a failure inside mockRegisterFinish is
   returned as success:false with a message, and stores nothing. *)
C14_FinishReturnsNeverThrows ==
    IsFinish(lastCall) =>
        /\ lastCall.outcome = "returned"
        /\ lastCall.response.success \in BOOLEAN
        /\ "message" \in DOMAIN lastCall.response
        /\ (lastCall.op = "mockRegisterFinish" /\ ~HasResponse(lastCall.credential))
               => ~lastCall.response.success

C14_Witness ==
    /\ lastCall.op = "mockRegisterFinish"
    /\ ~HasResponse(lastCall.credential)
    /\ ~lastCall.response.success

(* C15: mockRegisterStart called with an empty username fails and records no
   challenge; called with a non-empty username it returns options and records
   one challenge tagged with that username. *)
C15_RegisterStartValidatesUsername ==
    lastCall.op = "mockRegisterStart" =>
        LET recorded == {i \in 1 .. Len(challengeStorage) :
                            challengeStorage[i].challenge = lastCall.response.challenge}
        IN  IF lastCall.request.username = ""
            THEN recorded = {}
            ELSE /\ Cardinality(recorded) = 1
                 /\ \A i \in recorded :
                        challengeStorage[i].username = lastCall.request.username


----------------------------------------------------------------------------
(* The facade *)

\* C16: every facade call is routed by the value the useMockServer flag has
\* at the moment of the call, also when the caller holds facade functions
\* obtained before the flag changed.
C16_RoutedByCurrentFlag ==
    \A i \in 1 .. Len(handler.routes) :
        handler.routes[i].backend = Backend(handler.routes[i].flag)

----------------------------------------------------------------------------
(* The remote client *)

\* C17: no remote request is pending past its timeout, in any phase: by then
\* it has delivered its result or failed.
C17_NoRequestPendingPastTimeout ==
    fetch.phase \in Pending => fetch.elapsed <= fetch.timeout

----------------------------------------------------------------------------
(* The codec *)

\* C18: decoding the encoding of a buffer returns the buffer, byte for byte.
C18_RoundTrip ==
    codec.pc = "roundtrip" =>
        /\ codec.result.ok
        /\ codec.result.bytes = codec.buffer

\* a buffer of length 2 modulo 3 whose encoding uses '_' made the round trip
C18_Witness ==
    /\ codec.pc = "roundtrip"
    /\ Len(codec.buffer) % 3 = 2
    /\ "_" \in Range(codec.text)

\* C19: decode rejects every text that contains a character outside the
\* URL-safe alphabet, '+' in particular; it returns no bytes for it.
C19_DecodeRejectsNonUrlSafe ==
    ( /\ codec.pc = "decoded"
      /\ \E i \in 1 .. Len(codec.text) : codec.text[i] \notin UrlSafeChars )
    => ~codec.result.ok

\* C20: the output of encode is text over the URL-safe alphabet: no '+',
\* no '/', no '=' padding.
C20_EncodeUrlSafeUnpadded ==
    codec.pc \in {"encoded", "roundtrip"} =>
        \A i \in 1 .. Len(codec.text) : codec.text[i] \in UrlSafeChars

\* a buffer of length 1 modulo 3 was encoded to a text that uses '-', where
\* btoa yields '+' and two '='
C20_Witness ==
    /\ codec.pc = "encoded"
    /\ Len(codec.buffer) % 3 = 1
    /\ "-" \in Range(codec.text)
    /\ "=" \in Range(btoa(codec.buffer))

----------------------------------------------------------------------------
(* The ceremony adapter *)

\* a text of the URL-safe alphabet whose length a Base64URL text can have
ValidText(text) ==
    /\ \A i \in 1 .. Len(text) : text[i] \in UrlSafeChars
    /\ Len(text) % 4 # 1

ValidList(list) == \A i \in 1 .. Len(list.items) : ValidText(list.items[i].id)

\* list entry i is wire entry i with its id decoded; absent stays absent
ListDecodedInOrder(wire, converted) ==
    /\ converted.defined = wire.defined
    /\ Len(converted.items) = Len(wire.items)
    /\ \A i \in 1 .. Len(wire.items) :
          /\ converted.items[i].id = Decoded(wire.items[i].id)
          /\ converted.items[i].type = wire.items[i].type
          /\ converted.items[i].transports = wire.items[i].transports

\* C21: for valid wire registration options, convertRegistrationOptions
\* returns challenge and user.id as the bytes their texts decode to, the
\* excludeCredentials ids decoded in the same order, and every other field
\* unchanged, with attestation 'none' when it is absent.
C21_RegistrationOptionsConverted ==
    ( /\ conv.pc = "converted"
      /\ conv.kind = "registration"
      /\ ValidText(conv.wire.challenge)
      /\ ValidText(conv.wire.user.id)
      /\ ValidList(conv.wire.excludeCredentials) )
    => /\ conv.result.ok
       /\ LET wire == conv.wire
              options == conv.result.options
          IN  /\ options.challenge = Decoded(wire.challenge)
              /\ options.user.id = Decoded(wire.user.id)
              /\ ListDecodedInOrder(wire.excludeCredentials,
                                    options.excludeCredentials)
              /\ options.rp = wire.rp
              /\ options.user.name = wire.user.name
              /\ options.user.displayName = wire.user.displayName
              /\ options.pubKeyCredParams = wire.pubKeyCredParams
              /\ options.timeout = wire.timeout
              /\ options.authenticatorSelection = wire.authenticatorSelection
              /\ options.attestation = IF wire.attestation.defined
                                       THEN wire.attestation.value
                                       ELSE "none"

\* options with two different excluded ids and no attestation were converted
C21_Witness ==
    /\ conv.pc = "converted"
    /\ conv.kind = "registration"
    /\ conv.result.ok
    /\ ~conv.wire.attestation.defined
    /\ Len(conv.wire.excludeCredentials.items) = 2
    /\ conv.wire.excludeCredentials.items[1].id
         # conv.wire.excludeCredentials.items[2].id

\* the options the handler of the page gave to the platform call
PlatformOptions == handler.converted.options

\* the handler runs a ceremony of the mock relying party that was started
\* without a username
DiscoverableCeremony ==
    /\ handler.kind = "auth"
    /\ handler.challenge > 0
    /\ ceremonies[handler.challenge].username = ""

\* C22: convertAuthenticationOptions does not make up allowCredentials: an
\* absent list stays absent, an empty one empty, entry i is wire entry i
\* with its id decoded; the options of a discoverable authStart reach the
\* platform call without a list.
C22_AllowCredentialsNotFabricated ==
    (handler.kind = "auth" /\ handler.converted.ok)
    => /\ ListDecodedInOrder(handler.wire.allowCredentials,
                             PlatformOptions.allowCredentials)
       /\ DiscoverableCeremony => ~PlatformOptions.allowCredentials.defined

\* a discoverable ceremony is at the prompt while a credential is stored
C22_Witness ==
    /\ DiscoverableCeremony
    /\ handler.pc = "prompt"
    /\ Len(mockStorage) > 0
    /\ ~PlatformOptions.allowCredentials.defined

\* what a catch clause can tell the kind of a thrown value by: its class and
\* its name
KindOf(error) == <<error.class, error.name>>

\* failures of another kind that a handler catches: those of the remote
\* client, a duplicate credential, a malformed encoding
OtherFailures ==
    {FetchError(o) : o \in {"Timeout", "ApiError", "NetworkError", "SyntaxError"}}
    \cup {DomException(n, "") : n \in {"InvalidStateError", "InvalidCharacterError"}}

\* C23: when the platform returns no credential, createCredential and
\* getCredential return no wire credential and fail with a typed error whose
\* kind tells it from every failure of another kind.
C23_NoCredentialHasOwnKind ==
    handler.cause = "noCredential"
    => /\ handler.thrown
       /\ handler.credential = ""
       /\ \A e \in OtherFailures : KindOf(handler.error) # KindOf(e)

\* C23, as the code has it: when the platform returns no credential,
\* createCredential and getCredential return no wire credential, the finish
\* call is not made, and what is thrown is a plain Error told from other
\* failures by its fixed message only, which the page shows as it is.
C23_NoCredentialThrowsPlainError ==
    handler.cause = "noCredential"
    => /\ handler.thrown
       /\ handler.credential = ""
       /\ ~handler.result.returned
       /\ handler.steps = <<"start", "convert", "platform">>
       /\ KindOf(handler.error) = <<"Error", "Error">>
       /\ handler.error.message =
              ( IF handler.kind = "register"
                THEN "credential creation failed"
                ELSE "credential retrieval failed" )
       /\ page = [status |-> "error", message |-> <<handler.error.message>>]

\* the platform returned null in an authentication of the remote backend
C23_Witness ==
    /\ handler.cause = "noCredential"
    /\ handler.kind = "auth"
    /\ ~handler.api.useMockServer

----------------------------------------------------------------------------
(* The ceremony error translator *)

\* the six reason codes of the platform's credential API
ReasonCodes ==
    { "NotAllowedError", "InvalidStateError", "NotSupportedError",
      "SecurityError", "AbortError", "NotFoundError" }

\* C24: the translator returns, for an error of one of the six reason
\* codes, a message fixed for that code whatever the error's own message
\* text, and for every other thrown value the generic unknown-error message.
C24_TranslatorStable ==
    translation.pc = "translated" =>
        LET error == translation.error
        IN  IF error.class = "DOMException" /\ error.name \in ReasonCodes
            THEN \A text \in ErrorMessages :
                     getWebAuthnErrorMessage([error EXCEPT !.message = text])
                       = translation.message
            ELSE translation.message = UnknownErrorMessage

----------------------------------------------------------------------------
(* The page: reload, ceremony handlers, configuration *)

\* C25: a credential stored by registerFinish in mock mode is still in the
\* store after a page reload.
C25_CredentialsSurviveReload ==
    lastCall.op = "reload" => CredKeys(mockStorage) = lastCall.stored

\* the steps of a ceremony
CeremonyOrder == <<"start", "convert", "platform", "finish">>

IsPrefix(s, t) ==
    /\ Len(s) <= Len(t)
    /\ \A i \in 1 .. Len(s) : s[i] = t[i]

\* C26: a handler takes its steps in the order start, conversion, platform
\* call, finish; it calls finish only with a credential the platform
\* returned; the page is in its success state only after finish returned
\* success:true, and in its error state after a thrown error or a
\* success:false result.
C26_StepsInOrder ==
    /\ IsPrefix(handler.steps, CeremonyOrder)
    /\ "finish" \in Range(handler.steps)
          => handler.credential \in CredIds /\ ~(handler.cause = "noCredential")
    /\ page.status = "success"
          => /\ handler.steps = CeremonyOrder
             /\ handler.result.returned
             /\ handler.result.success
             /\ ~handler.thrown
    /\ (handler.thrown \/ (handler.result.returned /\ ~handler.result.success))
          => page.status = "error"

\* the finish call of a remote ceremony returned success:false
C26_Witness ==
    /\ handler.steps = CeremonyOrder
    /\ handler.result.returned
    /\ ~handler.result.success
    /\ page.status = "error"

\* C29: the start call and the finish call of one ceremony of a page go to
\* the same backend, also when useMockServer is toggled while the platform
\* prompt is pending.
C29_OneBackendPerCeremony ==
    \A i, j \in 1 .. Len(handler.routes) :
        handler.routes[i].backend = handler.routes[j].backend

\* the flag was toggled between the start call and the finish call
C29_Witness ==
    /\ Len(handler.routes) = 2
    /\ handler.routes[1].flag # handler.routes[2].flag

\* the handler of the page is suspended in a ceremony
InFlight == handler.pc \in {"awaitStart", "prompt", "awaitFinish"}

\* C30: while a ceremony of the page is in flight the page offers no enabled
\* control that starts a ceremony, and no start call is made: the handler's
\* calls are those it had made, or those and its finish call.
C30_OneCeremonyInFlight ==
    [][ InFlight
        => /\ ~ControlEnabled
           /\ \/ handler'.routes = handler.routes
              \/ /\ Len(handler.routes) = 1
                 /\ Len(handler'.routes) = 2
                 /\ handler'.routes[1] = handler.routes[1]
                 /\ handler'.routes[2].fn = FinishFn(handler.kind) ]_vars

\* the second ceremony of the page is at the prompt
C30_Witness ==
    /\ handler.pc = "prompt"
    /\ Len(ceremonies) = 2
    /\ page.status = "loading"

----------------------------------------------------------------------------
(* The credential store of the mock relying party *)

\* the entries under the keys other than key are the same in both stores
SameButFor(before, after, key) ==
    \A k \in (CredKeys(before) \cup CredKeys(after)) \ {key} :
        /\ CredHas(before, k)
        /\ CredHas(after, k)
        /\ CredGet(after, k) = CredGet(before, k)

\* C28: the credential store changes only in a mockRegisterFinish call,
\* which sets the key of the presented credential id and no other, and in a
\* clearMockData call; every other operation leaves it as it is.
C28_StoreChangedOnlyByFinishAndClear ==
    [][ mockStorage' # mockStorage
        => \/ /\ lastCall'.op = "mockRegisterFinish"
              /\ CredHas(mockStorage', lastCall'.credential.id)
              /\ SameButFor(mockStorage, mockStorage', lastCall'.credential.id)
           \/ /\ lastCall'.op = "clearMockData"
              /\ mockStorage' = <<>> ]_vars

\* a second credential was stored beside the first
C28_Witness ==
    /\ lastCall.op = "mockRegisterFinish"
    /\ lastCall.response.success
    /\ Len(mockStorage) = 2
    /\ mockStorage[2].credentialId = lastCall.credential.id

----------------------------------------------------------------------------
(* The configuration provider *)

\* C27: once resetConfig has taken effect (the state update is applied and
\* the effects have run) the configuration is DEFAULT_CONFIG and
\* localStorage holds no entry under the settings key.
C27_ResetRemovesEntry ==
    (provider.reset /\ Committed)
    => config = DEFAULT_CONFIG /\ ~localStorage.saved

====
